---- MODULE Spec2Model ----
(***************************************************************************)
(* A model of hodman's BaseObject (page-object base class): the selector   *)
(* table and load-selector list, the blocking wait loop (waitUntil,        *)
(* waitForElements, verifyIsLoaded, the constructor) and the screenshot    *)
(* pipeline (capture with its decode and write callbacks).                 *)
(*                                                                         *)
(* One JavaScript thread runs the object: a call runs to its return or its *)
(* throw before anything else happens, and the two image callbacks of      *)
(* capture run later, from the event loop.  The browser (which elements    *)
(* exist, where the context is on screen), the custom predicate handed to  *)
(* waitUntil and the image codec are the environment: what they answer is  *)
(* drawn with \E at the step that asks them.  The clock advances only in   *)
(* the adapter's sleep.                                                    *)
(***************************************************************************)
EXTENDS Integers, Sequences, FiniteSets, TLC

\* ------------------------------------------------------------------ bounds
MaxLoad == 2          \* longest load-selector list
MaxTimeOut == 3       \* largest explicit timeOut argument (ms)
MaxWaitInMs == 2      \* largest explicit waitInMs argument (ms)
MaxPolls == 20        \* a call is modelled when timeOut <= MaxPolls * waitInMs
MaxBlackOuts == 2     \* longest black-out list of a capture

\* ------------------------------------------------------- program constants
DefaultTimeOut == 10000     \* timeOut = timeOut || 10000
DefaultWaitInMs == 500      \* waitInMs = waitInMs || 500
DefaultWait == 1000         \* sleep(wait || 1000)

\* ------------------------------------------------------------------ values
Undefined == "undefined"                 \* a missing property / omitted argument
Names == {"header", "body"}              \* selector names a subclass uses
Css == [header |-> ".hdr", body |-> ".bd"]
Exprs == {Css[n] : n \in Names}          \* selector expressions
\* the selector tables a subclass can set: each name maps to its expression
\* or is not a key at all
Tables == {t \in [Names -> Exprs \cup {Undefined}] :
              \A n \in Names : t[n] \in {Css[n], Undefined}}
EmptyTable == [n \in Names |-> Undefined]          \* this._selectors = {}
\* what one evaluation of a predicate can return
PredResults == {"falsy", "truthy", "thenable"}
\* an omitted (or zero) argument is 0: both are falsy to `x || default`
TimeOutArgs == 0 .. MaxTimeOut
WaitInMsArgs == 0 .. MaxWaitInMs
ClockReadings == {7}                     \* what the clock reads when a call starts
WaitArgs == {0, 250}                     \* capture's wait argument (0: omitted)
\* rectangles {x, y, width, height}
Rect(x, y, w, h) == [x |-> x, y |-> y, width |-> w, height |-> h]
ZeroFrame == Rect(0, 0, 0, 0)            \* getFrame without element.getFrame
\* where the context can be on screen: a real area, two flat ones, nothing
Frames == {Rect(1, 1, 2, 1), Rect(1, 1, 0, 1), Rect(1, 1, 2, 0), ZeroFrame}
\* black-out rectangles: one inside the area Rect(1, 1, 2, 1), one outside
Rects == {Rect(1, 1, 1, 1), Rect(0, 0, 1, 1)}
\* the frame of an element that is to be blacked out: it overlaps both
ElementFrames == {Rect(0, 1, 2, 1)}
\* a black-out entry is a literal rectangle or an object with getFrame()
ElementEntry == [kind |-> "element"]
Entries == {[kind |-> "rect", rect |-> r] : r \in Rects} \cup {ElementEntry}
\* blackOut(): [] in BaseObject, one element in a subclass that overrides it
OwnBlackOuts == {<<>>, <<ElementEntry>>}
SeqsUpTo(S, n) == UNION {[1 .. k -> S] : k \in 0 .. n}

VARIABLES
    pc,             \* where the thread is
    phase,          \* "constructing" (inside the constructor) or "ready"
    selectors,      \* this._selectors
    loadSelectors,  \* this._loadSelectors
    now,            \* the clock, +new Date()
    \* waitUntil's frame
    fnKind,         \* the predicate: "custom" (the caller's) or "elements"
    fnSelectors,    \* the list waitForElements closed over
    startTime, timeOut, waitInMs,
    result,         \* the variable `result`: what the first fn() returned
    \* history of the call in progress (not read by the program)
    lastResult,     \* what the latest evaluation returned
    lastPass,       \* the expressions with an element at the latest evaluation
    seenPresent,    \* the expressions that had an element at some evaluation
    deferred,       \* the continuation of a thenable result
    evals,          \* predicate evaluations so far
    sleeps,         \* adapter sleeps so far
    sleepsSinceEval,\* adapter sleeps since the latest evaluation
    sleptAfterTruthy, \* a sleep came after an evaluation that returned truthy
    truthySeen,     \* some evaluation returned a truthy value
    earlyTruthy,    \* some evaluation returned truthy at elapsed < timeOut
    lateEvals,      \* evaluations made at elapsed >= timeOut
    \* capture's frame
    blackOutList,   \* the resolved black-out rectangles
    frame,          \* the frame of the context, read before decoding
    buffer,         \* the screenshot buffer
    path,           \* the file to write
    promise,        \* the returned promise: "none", "pending", "resolved", "rejected"
    \* history of the capture in progress (not read by the program)
    trace,          \* the adapter, codec and promise events, in order
    settleCalls,    \* calls of resolve or reject
    capArgs         \* what the capture was called with and configured by

objVars == <<phase, selectors, loadSelectors>>
frameVars == <<fnKind, fnSelectors, startTime, timeOut, waitInMs, result>>
histVars == <<lastResult, lastPass, seenPresent, deferred, evals, sleeps,
              sleepsSinceEval, sleptAfterTruthy, truthySeen, earlyTruthy, lateEvals>>
capVars == <<blackOutList, frame, buffer, path, promise, trace, settleCalls, capArgs>>
mainVars == <<pc, now, objVars, frameVars, histVars, capVars>>

\* the process-wide configuration and a ServiceRequest call
VARIABLES
    overrides,      \* the settings on the class, on `global` and in process.env
    resolved,       \* what the three static getters returned when last called
    reqPc,          \* where a sendRequest call is
    reqArgs,        \* what the transport passed to the callback
    reqPromise,     \* the promise sendRequest returned
    reqUncaught     \* the exception that left the callback, if one did
confVars == <<overrides, resolved>>
reqVars == <<reqPc, reqArgs, reqPromise, reqUncaught>>
sideVars == <<confVars, reqVars>>
vars == <<mainVars, sideVars>>

\* ----------------------------------------------------------- pure helpers
Truthy(r) == r # "falsy"
HasThen(r) == r = "thenable"
OrDefault(v, d) == IF v = 0 THEN d ELSE v        \* v || d on numbers

\* getSelector: selectors[selectorName]
getSelector(sel, selectorName) == sel[selectorName]

\* hasSelector: !!selectors[selectorName]
hasSelector(sel, selectorName) == getSelector(sel, selectorName) # Undefined

\* `this.hasSelector` without a call: the method itself, a function object,
\* which is truthy whatever the name is
hasSelectorRef(sel, selectorName) == TRUE

\* hasElement: getElements(context, selector, 'css selector').length !== 0,
\* where `found` are the expressions that match an element right now; a
\* lookup with no selector matches nothing
hasElement(sel, found, selectorName) == getSelector(sel, selectorName) \in found

\* a predicate that lets the last selector of the list decide
RECURSIVE allLoaded_lastWins(_, _, _)
allLoaded_lastWins(list, sel, found) ==
    IF list = <<>> THEN TRUE
    ELSE IF Tail(list) = <<>> THEN hasElement(sel, found, Head(list))
    ELSE allLoaded_lastWins(Tail(list), sel, found)

\* the predicate of waitForElements: _.each over the list, allLoaded stays
\* true only while every hasElement so far answered true
RECURSIVE allLoaded(_, _, _)
allLoaded(list, sel, found) ==
    IF list = <<>> THEN TRUE
    ELSE IF hasElement(sel, found, Head(list))
         THEN allLoaded(Tail(list), sel, found)
         ELSE FALSE

\* a timeout test that lets the deadline itself pass
TimedOut_gt(t, start, limit) == t - start > limit

\* a timeout test that forgets when the call started
TimedOut_noStart(t, start, limit) == t >= limit

\* (+new Date()) - startTime >= timeOut
TimedOut(t, start, limit) == t - start >= limit

Elapsed == now - startTime

\* ------------------------------------------------------------------- Init
NoFrame ==
    /\ fnKind = "none" /\ fnSelectors = <<>>
    /\ startTime = 0 /\ timeOut = 0 /\ waitInMs = 0 /\ result = Undefined
NoHistory ==
    /\ lastResult = Undefined /\ lastPass = {} /\ seenPresent = {}
    /\ deferred = "none" /\ evals = 0 /\ sleeps = 0 /\ sleepsSinceEval = 0
    /\ sleptAfterTruthy = FALSE /\ truthySeen = FALSE /\ earlyTruthy = FALSE
    /\ lateEvals = 0

NoArgs == [title |-> Undefined, id |-> Undefined, wait |-> 0, entries |-> <<>>,
           prefix |-> Undefined, dir |-> Undefined]
NoCapture ==
    /\ blackOutList = <<>> /\ frame = ZeroFrame /\ promise = "none"
    /\ buffer = Undefined /\ path = Undefined
    /\ trace = <<>> /\ settleCalls = 0 /\ capArgs = NoArgs

\* the three settings as one level (the class, `global`, process.env) holds
\* them, and the three levels
Level(dir, prefix, adapter) ==
    [SCREENSHOT_PATH |-> dir, SCREENSHOT_PREFIX |-> prefix, DRIVER_ADAPTER |-> adapter]
Config(class, global, env) == [class |-> class, global |-> global, env |-> env]
Unset == Level(Undefined, Undefined, Undefined)
NotAsked == [asked |-> FALSE, dir |-> Undefined, prefix |-> Undefined,
             adapter |-> Undefined]
\* nothing configured, no getter called yet
NoConfig ==
    /\ overrides = Config(Unset, Unset, Unset)
    /\ resolved = NotAsked

\* the response argument of the transport's callback; absent is `undefined`
Response(statusCode) == [present |-> TRUE, statusCode |-> statusCode]
Absent == [present |-> FALSE, statusCode |-> 0]
CallbackArgs(err, response, responseData, sync) ==
    [err |-> err, response |-> response, responseData |-> responseData,
     sync |-> sync]
Settled(state, value) == [state |-> state, value |-> value]
NoPromise == Settled("none", Undefined)
Pending == Settled("pending", Undefined)
\* no sendRequest call is under way
NoRequest ==
    /\ reqPc = "idle"
    /\ reqArgs = CallbackArgs(Undefined, Absent, Undefined, FALSE)
    /\ reqPromise = NoPromise
    /\ reqUncaught = Undefined

\* the constructor up to its call of initialize(): _loadSelectors = [],
\* _selectors = {}
Init ==
    /\ pc = "initialize" /\ phase = "constructing"
    /\ selectors = EmptyTable /\ loadSelectors = <<>>
    /\ now \in ClockReadings
    /\ NoFrame /\ NoHistory /\ NoCapture
    /\ NoConfig /\ NoRequest

\* a finished call's frame and history are dropped
ClearFrame ==
    /\ fnKind' = "none" /\ fnSelectors' = <<>>
    /\ startTime' = 0 /\ timeOut' = 0 /\ waitInMs' = 0 /\ result' = Undefined
ClearHistory ==
    /\ lastResult' = Undefined /\ lastPass' = {} /\ seenPresent' = {}
    /\ deferred' = "none" /\ evals' = 0 /\ sleeps' = 0 /\ sleepsSinceEval' = 0
    /\ sleptAfterTruthy' = FALSE /\ truthySeen' = FALSE /\ earlyTruthy' = FALSE
    /\ lateEvals' = 0

ClearCapture ==
    /\ blackOutList' = <<>> /\ frame' = ZeroFrame /\ promise' = "none"
    /\ buffer' = Undefined /\ path' = Undefined
    /\ trace' = <<>> /\ settleCalls' = 0 /\ capArgs' = NoArgs

\* ------------------------------------------------- selectors, load list
\* a subclass's initialize() and any later caller may use these
AtRest == pc \in {"initialize", "idle"}

setSelectors ==
    /\ AtRest
    /\ \E t \in Tables : selectors' = t
    /\ UNCHANGED <<pc, now, phase, loadSelectors, frameVars, histVars, capVars>>
    /\ UNCHANGED sideVars

addLoadSelector ==
    /\ AtRest
    /\ Len(loadSelectors) < MaxLoad
    /\ \E selector \in Names :
          IF ~hasSelectorRef(selectors, selector)
          THEN /\ pc' = "thrown"
               /\ UNCHANGED loadSelectors
          ELSE /\ loadSelectors' = Append(loadSelectors, selector)
               /\ UNCHANGED pc
    /\ UNCHANGED <<now, phase, selectors, frameVars, histVars, capVars>>
    /\ UNCHANGED sideVars

\* ------------------------------------------------------------- waitUntil
\* lines 232-236: read the clock, default the arguments
waitUntil(kind, list, t, w) ==
    /\ OrDefault(t, DefaultTimeOut) <= MaxPolls * OrDefault(w, DefaultWaitInMs)
    /\ startTime' = now
    /\ timeOut' = OrDefault(t, DefaultTimeOut)
    /\ waitInMs' = OrDefault(w, DefaultWaitInMs)
    /\ fnKind' = kind /\ fnSelectors' = list
    /\ result' = Undefined
    /\ pc' = "first"
    /\ UNCHANGED <<now, objVars, histVars, capVars>>

waitForElements(list, t, w) == waitUntil("elements", list, t, w)

\* the constructor's last statement, or a later call
verifyIsLoaded ==
    /\ AtRest
    /\ \E t \in TimeOutArgs, w \in WaitInMsArgs :
          waitForElements(loadSelectors, t, w)
    /\ UNCHANGED sideVars

\* a caller's waitUntil with a predicate of its own
callWaitUntil ==
    /\ pc = "idle"
    /\ \E t \in TimeOutArgs, w \in WaitInMsArgs : waitUntil("custom", <<>>, t, w)
    /\ UNCHANGED sideVars

\* what fn() can return now: the caller's predicate returns what it likes;
\* the predicate of waitForElements looks at the elements that exist
FnReturns(r, found) ==
    IF fnKind = "elements"
    THEN r = (IF allLoaded(fnSelectors, selectors, found) THEN "truthy" ELSE "falsy")
    ELSE found = {}

Evaluated(r, found) ==
    /\ lastResult' = r
    /\ lastPass' = found
    /\ seenPresent' = seenPresent \cup found
    /\ evals' = evals + 1
    /\ sleepsSinceEval' = 0
    /\ truthySeen' = (truthySeen \/ Truthy(r))
    /\ earlyTruthy' = (earlyTruthy \/ (Truthy(r) /\ Elapsed < timeOut))
    /\ lateEvals' = lateEvals + (IF Elapsed >= timeOut THEN 1 ELSE 0)
    /\ IF HasThen(r)
       THEN deferred' \in {"pending", "truthy", "falsy"}
       ELSE deferred' = deferred
    /\ UNCHANGED <<sleeps, sleptAfterTruthy>>

\* lines 238-241: result = fn(); a thenable result skips the loop
FirstEval ==
    /\ pc = "first"
    /\ \E r \in PredResults, found \in SUBSET Exprs :
          /\ FnReturns(r, found)
          /\ result' = r
          /\ pc' = IF Truthy(r) /\ HasThen(r) THEN "returned" ELSE "while"
          /\ Evaluated(r, found)
    /\ UNCHANGED <<now, objVars, fnKind, fnSelectors, startTime, timeOut, waitInMs,
                   capVars>>
    /\ UNCHANGED sideVars

\* line 243: while (!fn())
WhileEval ==
    /\ pc = "while"
    /\ \E r \in PredResults, found \in SUBSET Exprs :
          /\ FnReturns(r, found)
          /\ pc' = IF ~Truthy(r) THEN "check" ELSE "returned"
          /\ Evaluated(r, found)
    /\ UNCHANGED <<now, objVars, frameVars, capVars>>
    /\ UNCHANGED sideVars

\* lines 245-249: throw on a timeout, else sleep and loop
CheckTimeOut ==
    /\ pc = "check"
    /\ IF TimedOut(now, startTime, timeOut)
       THEN /\ pc' = "thrown"
            /\ UNCHANGED <<now, histVars>>
       ELSE /\ now' = now + waitInMs
            /\ pc' = "while"
            /\ sleeps' = sleeps + 1
            /\ sleepsSinceEval' = sleepsSinceEval + 1
            /\ sleptAfterTruthy' = (sleptAfterTruthy \/ truthySeen)
            /\ UNCHANGED <<lastResult, lastPass, seenPresent, deferred, evals,
                           truthySeen, earlyTruthy, lateEvals>>
    /\ UNCHANGED <<objVars, frameVars, capVars>>
    /\ UNCHANGED sideVars

\* the continuation of a thenable result settles, when the thread is free
deferredSettles ==
    /\ pc = "returned" /\ deferred = "pending"
    /\ deferred' \in {"truthy", "falsy"}
    /\ UNCHANGED <<pc, now, objVars, frameVars, lastResult, lastPass, seenPresent,
                   evals, sleeps, sleepsSinceEval, sleptAfterTruthy, truthySeen,
                   earlyTruthy, lateEvals, capVars>>
    /\ UNCHANGED sideVars

\* ---------------------------------------------------------------- images
\* a pixel colour, as pngjs-image takes it; the black of lines 343-348
Colour(r, g, b) == [red |-> r, green |-> g, blue |-> b, alpha |-> 255]
Black == Colour(0, 0, 0)
\* the pixels of a w x h image
PixelsOf(w, h) == {<<x, y>> : x \in 0 .. w - 1, y \in 0 .. h - 1}
Image(w, h, px) == [width |-> w, height |-> h, px |-> px]
\* what the adapter's takeScreenshot can return: PNG buffers of a 3 x 2
\* screen, one with a different colour at every pixel, one with a black
\* column
Buffers == {"png-plain", "png-dark"}
\* PNGImage.loadImage: the pixels a buffer decodes to
Decode(png) ==
    Image(3, 2,
          [p \in PixelsOf(3, 2) |->
              IF png = "png-dark" /\ p[1] = 0
              THEN Black
              ELSE Colour(10 + p[1], 20 + p[2], 30)])

InRect(p, r) ==
    /\ r.x <= p[1] /\ p[1] < r.x + r.width
    /\ r.y <= p[2] /\ p[2] < r.y + r.height

\* image.fillRect(x, y, width, height, colour)
fillRect(img, r, colour) ==
    [img EXCEPT !.px = [p \in DOMAIN img.px |->
                           IF InRect(p, r) THEN colour ELSE img.px[p]]]

\* image.clip(x, y, width, height): the rectangle becomes the image
clip(img, r) ==
    Image(r.width, r.height,
          [p \in PixelsOf(r.width, r.height) |-> img.px[<<r.x + p[1], r.y + p[2]>>]])

\* a fill loop that stops one rectangle short
RECURSIVE fillAll_skipsLast(_, _)
fillAll_skipsLast(img, list) ==
    IF Len(list) <= 1 THEN img
    ELSE fillAll_skipsLast(fillRect(img, Head(list), Black), Tail(list))

\* lines 342-349: fill every rectangle of the list, in order, with black
RECURSIVE fillAll(_, _)
fillAll(img, list) ==
    IF list = <<>> THEN img
    ELSE fillAll(fillRect(img, Head(list), Black), Tail(list))

\* a clip that needs only one side of the frame to be nonzero
ClipNeeded_or(f) == (f.width # 0) \/ (f.height # 0)

\* a clip without its guard
ClipNeeded_always(f) == TRUE

\* line 352: (frame.width !== 0) && (frame.height !== 0)
ClipNeeded(f) == (f.width # 0) /\ (f.height # 0)

\* an image pipeline that clips before it blacks out
composeImage_clipsFirst(img, list, f) ==
    fillAll(IF ClipNeeded(f) THEN clip(img, f) ELSE img, list)

\* lines 341-354: black out, then clip to the frame if it is a real area
composeImage(img, list, f) ==
    IF ClipNeeded(f) THEN clip(fillAll(img, list), f) ELSE fillAll(img, list)

\* ------------------------------------------------------------ file names
\* JavaScript truthiness of a string or a missing value
JsTruthy(v) == v \notin {Undefined, ""}
Or(a, b) == IF JsTruthy(a) THEN a ELSE b            \* a || b

\* utils.fileNameSafe on the texts used here: a character that is unsafe in
\* a file name becomes "_"
fileNameSafe(str) ==
    CASE str = "Login Test" -> "Login_Test"
      [] str = "a/b" -> "a_b"
      [] OTHER -> str

\* a file name that leaves the prefix out
fileName_noPrefix(title, id, prefix) ==
    fileNameSafe(title) \o "_" \o fileNameSafe(Or(id, "1")) \o ".png"

\* lines 323-326
fileName(title, id, prefix) ==
    LET name == fileNameSafe(title) \o "_" \o fileNameSafe(Or(id, "1")) \o ".png"
    IN IF JsTruthy(prefix) THEN fileNameSafe(prefix) \o "_" \o name ELSE name

\* nodePath.join(directory, fileName)
join(dir, name) == dir \o "/" \o name

\* --------------------------------------------------- static configuration
\* one place a setting can come from: the class, `global`, process.env

\* lines 392-394
getScreenshotPath(c) ==
    Or(c.class.SCREENSHOT_PATH, Or(c.global.SCREENSHOT_PATH, c.env.SCREENSHOT_PATH))

getScreenshotPrefix_globalFirst(c) ==
    Or(c.global.SCREENSHOT_PREFIX,
       Or(c.class.SCREENSHOT_PREFIX, c.env.SCREENSHOT_PREFIX))
\* lines 403-405
getScreenshotPrefix(c) ==
    Or(c.class.SCREENSHOT_PREFIX,
       Or(c.global.SCREENSHOT_PREFIX, c.env.SCREENSHOT_PREFIX))

\* lines 414-416
getDriverAdapter(c) == Or(c.class.DRIVER_ADAPTER, c.global.DRIVER_ADAPTER)

\* the configurations a capture is modelled under: the directory from the
\* environment, the prefix unset or set on the class
MainConfigs ==
    {Config(Level(Undefined, pre, Undefined),
            Level(Undefined, Undefined, "adapter"),
            Level("/shots", Undefined, Undefined)) : pre \in {Undefined, "suite1"}}

\* ------------------------------------------------- static configuration
Levels == {"class", "global", "env"}
Settings == {"SCREENSHOT_PATH", "SCREENSHOT_PREFIX", "DRIVER_ADAPTER"}
\* a value that tells which level and setting it was stored under
Value(level, setting) == level \o ":" \o setting

\* the program around BaseObject sets, empties or removes one setting at one
\* level; the getters cache nothing
setOverride ==
    /\ \E level \in Levels, setting \in Settings :
          \E v \in {Undefined, "", Value(level, setting)} :
             /\ overrides[level][setting] # v
             /\ overrides' = [overrides EXCEPT ![level][setting] = v]
    /\ resolved' = NotAsked
    /\ UNCHANGED <<mainVars, reqVars>>

\* the three static getters, called now
readSettings ==
    /\ ~resolved.asked
    /\ resolved' = [asked |-> TRUE,
                    dir |-> getScreenshotPath(overrides),
                    prefix |-> getScreenshotPrefix(overrides),
                    adapter |-> getDriverAdapter(overrides)]
    /\ UNCHANGED <<overrides, mainVars, reqVars>>

ConfigNext ==
    \/ setOverride
    \/ readSettings

ConfigSpec == Init /\ [][ConfigNext]_vars

\* ------------------------------------------- ServiceRequest.sendRequest
StatusCodes == 100 .. 699
Errs == {Undefined, "ECONNRESET"}
Responses == {Absent} \cup {Response(s) : s \in StatusCodes}
ResponseDatas == {"data-a", "data-b"}

\* line 59: Math.floor(response.statusCode / 200) === 2
statusIsError_twoOrMore(statusCode) == (statusCode \div 200) >= 2
statusIsError(statusCode) == (statusCode \div 200) = 2

\* lines 55-69, the callback handed to the transport: what it does to the
\* promise, or the exception it leaves with (`response.body` of an absent
\* response, line 56, before err is looked at)
callback(err, response, responseData) ==
    IF ~response.present
    THEN [thrown |-> "TypeError", promise |-> Pending]
    ELSE IF JsTruthy(err)
    THEN [thrown |-> Undefined, promise |-> Settled("rejected", err)]
    ELSE IF statusIsError(response.statusCode)
    THEN [thrown |-> Undefined, promise |-> Settled("rejected", "StatusError")]
    ELSE [thrown |-> Undefined, promise |-> Settled("resolved", responseData)]

\* lines 49-55: the promise is made and the transport is called
sendRequest ==
    /\ reqPc = "idle"
    /\ reqPc' = "sent"
    /\ reqPromise' = Pending
    /\ UNCHANGED <<reqArgs, reqUncaught, mainVars, confVars>>

\* the transport calls back, once. Called from inside the executor (sync)
\* an exception of the callback is caught by the promise and rejects it;
\* called later, it leaves the callback uncaught and the promise stays as
\* it was
transportCallsBack ==
    /\ reqPc = "sent"
    /\ \E err \in Errs, response \in Responses, responseData \in ResponseDatas,
          sync \in BOOLEAN :
          LET out == callback(err, response, responseData) IN
          /\ reqArgs' = CallbackArgs(err, response, responseData, sync)
          /\ IF out.thrown = Undefined
             THEN reqPromise' = out.promise /\ reqUncaught' = Undefined
             ELSE IF sync
             THEN /\ reqPromise' = Settled("rejected", out.thrown)
                  /\ reqUncaught' = Undefined
             ELSE reqPromise' = reqPromise /\ reqUncaught' = out.thrown
    /\ reqPc' = "calledBack"
    /\ UNCHANGED <<mainVars, confVars>>

\* the caller is done with the promise; a next call starts afresh
requestOver ==
    /\ reqPc = "calledBack"
    /\ reqPc' = "idle"
    /\ reqArgs' = CallbackArgs(Undefined, Absent, Undefined, FALSE)
    /\ reqPromise' = NoPromise
    /\ reqUncaught' = Undefined
    /\ UNCHANGED <<mainVars, confVars>>

RequestNext ==
    \/ sendRequest
    \/ transportCallsBack
    \/ requestOver

RequestSpec == Init /\ [][RequestNext]_vars

\* --------------------------------------------------------------- capture
Event(name, arg) == [ev |-> name, arg |-> arg]
\* capture's title and id arguments (Undefined: omitted)
Titles == {"Login Test"}
Ids == {Undefined, "a/b"}

\* lines 311-317: an entry without x is asked for its frame, which is
\* whatever the element's frame is then (`answers`)
Resolves(list, answers) ==
    /\ Len(answers) = Len(list)
    /\ \A i \in 1 .. Len(list) :
          IF list[i].kind = "rect"
          THEN answers[i] = list[i].rect
          ELSE answers[i] \in ElementFrames
ResolveEvents(list, answers) ==
    LET asked == {i \in 1 .. Len(list) : list[i].kind = "element"}
        RECURSIVE from(_)
        from(i) == IF i > Len(list) THEN <<>>
                   ELSE IF i \in asked
                        THEN <<Event("entry.getFrame", answers[i])>> \o from(i + 1)
                        ELSE from(i + 1)
    IN from(1)

\* lines 342-349: one fillRect per rectangle, in list order
FillEvents(list) == [i \in 1 .. Len(list) |-> Event("fillRect", list[i])]

\* lines 264-278: the context's frame, or the zero frame when the context
\* has no getFrame
getFrame(hasGetFrame, f) == IF hasGetFrame THEN f ELSE ZeroFrame

\* a capture that takes the screenshot before it sleeps
SyncEvents_shotFirst(wait, list, answers, fr, shot) ==
    <<Event("takeScreenshot", shot), Event("sleep", OrDefault(wait, DefaultWait))>>
    \o ResolveEvents(list, answers)
    \o <<Event("getFrame", fr), Event("loadImage", shot)>>

\* lines 307-333, what capture asks of the adapter, the black-out entries
\* and the codec before it returns: sleep, each entry's frame, the
\* context's frame, the screenshot, loadImage
SyncEvents(wait, list, answers, fr, shot) ==
    <<Event("sleep", OrDefault(wait, DefaultWait))>>
    \o ResolveEvents(list, answers)
    \o <<Event("getFrame", fr), Event("takeScreenshot", shot),
         Event("loadImage", shot)>>

\* lines 301-373 up to the return of the promise: sleep, resolve the
\* black-outs, read the frame, take the screenshot, compute the path, hand
\* the buffer to loadImage; loadImage throwing at once is caught and rejects
capture ==
    /\ pc = "idle"
    /\ \E title \in Titles, id \in Ids, wait \in WaitArgs, own \in OwnBlackOuts,
          additionalBlackOuts \in SeqsUpTo(Entries, MaxBlackOuts),
          answers \in SeqsUpTo(Rects \cup ElementFrames, MaxBlackOuts),
          hasGetFrame \in BOOLEAN, f \in Frames, shot \in Buffers,
          config \in MainConfigs, loadThrows \in BOOLEAN :
          LET list == own \o additionalBlackOuts
              prefix == getScreenshotPrefix(config)
              dir == getScreenshotPath(config)
          IN
          /\ Len(list) <= MaxBlackOuts
          /\ Resolves(list, answers)
          /\ hasGetFrame \/ f = ZeroFrame
          /\ now' = now + OrDefault(wait, DefaultWait)
          /\ blackOutList' = answers
          /\ frame' = getFrame(hasGetFrame, f)
          /\ buffer' = shot
          /\ path' = join(dir, fileName(title, id, prefix))
          /\ capArgs' = [title |-> title, id |-> id, wait |-> wait, entries |-> list,
                         prefix |-> prefix, dir |-> dir]
          /\ trace' = SyncEvents(wait, list, answers, getFrame(hasGetFrame, f), shot)
                      \o (IF loadThrows
                          THEN <<Event("loadImage.threw", TRUE), Event("reject", TRUE)>>
                          ELSE <<>>)
          /\ promise' = IF loadThrows THEN "rejected" ELSE "pending"
          /\ settleCalls' = IF loadThrows THEN 1 ELSE 0
          /\ pc' = IF loadThrows THEN "settled" ELSE "decoding"
    /\ UNCHANGED <<objVars, frameVars, histVars>>
    /\ UNCHANGED sideVars

\* a decode callback that goes on to write after a decode error
loadImageCallback_writesOnErr ==
    /\ pc = "decoding"
    /\ \E err \in BOOLEAN :
          /\ trace' = trace
                 \o <<Event("loadImage.done", err)>>
                 \o FillEvents(blackOutList)
                 \o (IF ClipNeeded(frame) THEN <<Event("clip", frame)>> ELSE <<>>)
                 \o <<Event("writeImage",
                            [path |-> path,
                             image |-> composeImage(Decode(buffer), blackOutList, frame)])>>
          /\ pc' = "writing"
    /\ UNCHANGED <<now, objVars, frameVars, histVars, blackOutList, frame, buffer, path,
                   promise, settleCalls, capArgs>>
    /\ UNCHANGED sideVars

\* lines 333-366, the callback of loadImage, run from the event loop: an
\* error is thrown out of the callback, past the try of the executor that
\* returned long ago; else fill, clip, and start the write
loadImageCallback ==
    /\ pc = "decoding"
    /\ \E err \in BOOLEAN :
          IF err
          THEN /\ trace' = trace \o <<Event("loadImage.done", TRUE)>>
               /\ pc' = "uncaught"
          ELSE /\ trace' = trace
                      \o <<Event("loadImage.done", FALSE)>>
                      \o FillEvents(blackOutList)
                      \o (IF ClipNeeded(frame) THEN <<Event("clip", frame)>> ELSE <<>>)
                      \o <<Event("writeImage",
                                 [path |-> path,
                                  image |-> composeImage(Decode(buffer),
                                                         blackOutList, frame)])>>
               /\ pc' = "writing"
    /\ UNCHANGED <<now, objVars, frameVars, histVars, blackOutList, frame, buffer, path,
                   promise, settleCalls, capArgs>>
    /\ UNCHANGED sideVars

\* a write callback that resolves whether or not the write failed
writeImageCallback_ignoresErr ==
    /\ pc = "writing"
    /\ \E err \in BOOLEAN :
          /\ trace' = trace \o <<Event("writeImage.done", err), Event("resolve", "self")>>
          /\ promise' = "resolved"
          /\ settleCalls' = settleCalls + 1
          /\ pc' = "settled"
    /\ UNCHANGED <<now, objVars, frameVars, histVars, blackOutList, frame, buffer, path,
                   capArgs>>
    /\ UNCHANGED sideVars

\* lines 357-365, the callback of writeImage: an error is thrown out of the
\* callback, else resolve(self)
writeImageCallback ==
    /\ pc = "writing"
    /\ \E err \in BOOLEAN :
          IF err
          THEN /\ trace' = trace \o <<Event("writeImage.done", TRUE)>>
               /\ pc' = "uncaught"
               /\ UNCHANGED <<promise, settleCalls>>
          ELSE /\ trace' = trace
                      \o <<Event("writeImage.done", FALSE), Event("resolve", "self")>>
               /\ promise' = IF promise = "pending" THEN "resolved" ELSE promise
               /\ settleCalls' = settleCalls + 1
               /\ pc' = "settled"
    /\ UNCHANGED <<now, objVars, frameVars, histVars, blackOutList, frame, buffer, path,
                   capArgs>>
    /\ UNCHANGED sideVars

\* ------------------------------------------------------------ the caller
Finished == pc \in {"returned", "thrown"}

\* a capture is over when its promise is settled, or when an exception left
\* one of its callbacks, after which nothing settles the promise
CaptureOver == pc \in {"settled", "uncaught"}

\* the caller goes on after a return or a throw, or when a capture is over;
\* a constructor that threw made no object, and the caller constructs again.
\* Any time may pass before its next call: the clock reads anything then
callerContinues ==
    /\ Finished \/ CaptureOver
    /\ IF phase = "constructing" /\ pc = "thrown"
       THEN /\ pc' = "initialize"
            /\ selectors' = EmptyTable /\ loadSelectors' = <<>>
            /\ UNCHANGED phase
       ELSE /\ pc' = "idle" /\ phase' = "ready"
            /\ UNCHANGED <<selectors, loadSelectors>>
    /\ ClearFrame /\ ClearHistory /\ ClearCapture
    /\ now' \in ClockReadings
    /\ UNCHANGED sideVars

WaitStep == FirstEval \/ WhileEval \/ CheckTimeOut

Next ==
    \/ setSelectors
    \/ addLoadSelector
    \/ verifyIsLoaded
    \/ callWaitUntil
    \/ FirstEval
    \/ WhileEval
    \/ CheckTimeOut
    \/ deferredSettles
    \/ capture
    \/ loadImageCallback
    \/ writeImageCallback
    \/ callerContinues

Spec == Init /\ [][Next]_vars

\* the wait loop is straight-line blocking code: it keeps running
FairSpec == Spec /\ WF_vars(WaitStep)

\* ================================================================ claims
InWait == pc \in {"first", "while", "check"}
WaitOver == fnKind # "none" /\ Finished
\* the names of the waited list whose element existed at no evaluation
NeverPresent == {i \in 1 .. Len(fnSelectors) :
                    getSelector(selectors, fnSelectors[i]) \notin seenPresent}

\* the places of an event in the trace of the capture in progress
Idx(name) == {i \in 1 .. Len(trace) : trace[i].ev = name}
Happened(name) == Idx(name) # {}
\* decoding failed (loadImage threw, or its callback got an error)
DecodeFailed ==
    \/ Happened("loadImage.threw")
    \/ \E i \in Idx("loadImage.done") : trace[i].arg = TRUE
\* the write failed (its callback got an error)
WriteFailed == \E i \in Idx("writeImage.done") : trace[i].arg = TRUE
\* the frame the capture read from the context
FrameRead == trace[CHOOSE i \in Idx("getFrame") : TRUE].arg

\* C1: a capture whose decode or write failed ends with its promise
\* rejected: once nothing more can run for the capture, the promise is not
\* pending.
C1_FailureRejects ==
    (CaptureOver /\ (DecodeFailed \/ WriteFailed)) => promise = "rejected"

\* C2: within one waitUntil call no adapter sleep follows an evaluation that
\* returned a truthy value, and a truthy first evaluation means the call
\* makes no sleep at all.
C2_NoSleepAfterTruthy ==
    fnKind # "none" =>
        /\ ~sleptAfterTruthy
        /\ (result # Undefined /\ Truthy(result) => sleeps = 0)

\* C3: a waitForElements call (the constructor's included) over a list with
\* a name whose element is never present ends, and ends by throwing, at an
\* elapsed time >= timeOut and < timeOut + waitInMs.
C3_State ==
    (fnKind = "elements" /\ Finished /\ NeverPresent # {}) =>
        /\ pc = "thrown"
        /\ Elapsed >= timeOut
        /\ Elapsed < timeOut + waitInMs
C3_TimeoutWindow ==
    /\ []C3_State
    /\ ((fnKind = "elements" /\ InWait) ~> Finished)
C3_Witness ==
    /\ fnKind = "elements" /\ pc = "thrown" /\ phase = "constructing"
    /\ Len(fnSelectors) = 2 /\ NeverPresent = {2}
    /\ Elapsed > timeOut /\ sleeps = 2

\* C4 as stated: waitUntil returns normally only if some evaluation returned
\* truthy at an elapsed time < timeOut.
C4_NoLateSuccess == (fnKind # "none" /\ pc = "returned") => earlyTruthy
\* C4 as amended: the timeout is tested only after a falsy evaluation.  The
\* call throws exactly after an evaluation that returned falsy at elapsed >=
\* timeOut, with no further sleep or evaluation; at most one evaluation is
\* made at elapsed >= timeOut, and when that one returns truthy the call
\* returns normally.
C4_TimeoutAfterFalsy ==
    fnKind # "none" =>
        /\ lateEvals <= 1
        /\ (pc = "thrown" =>
               /\ lateEvals = 1 /\ ~Truthy(lastResult)
               /\ Elapsed >= timeOut /\ sleepsSinceEval = 0)
        /\ (pc = "check" /\ lateEvals = 1 => ~Truthy(lastResult))
        /\ (pc = "returned" => Truthy(lastResult))
        /\ (pc \in {"first", "while"} => lateEvals = 0)
C4_Witness ==
    /\ fnKind = "custom" /\ pc = "returned"
    /\ ~earlyTruthy /\ lateEvals = 1 /\ Elapsed >= timeOut

\* C5: when the predicate returned a thenable, waitUntil returns only once
\* the continuation has settled, and only if it settled to a truthy value.
C5_WaitsForDeferred ==
    (pc = "returned" /\ HasThen(lastResult)) => deferred = "truthy"

\* C6: waitForElements, and so the constructor, returns normally only after
\* an evaluation pass in which every name of the list had an element.
C6_LoadedOnlyIfAllPresent ==
    /\ (fnKind = "elements" /\ pc = "returned") =>
          \A i \in 1 .. Len(fnSelectors) :
              getSelector(selectors, fnSelectors[i]) \in lastPass
    /\ (phase = "constructing" /\ pc = "returned") =>
          fnKind = "elements" /\ fnSelectors = loadSelectors
    /\ (fnKind = "elements" /\ NeverPresent # {}) => pc # "returned"
C6_Witness ==
    /\ fnKind = "elements" /\ pc = "returned" /\ phase = "constructing"
    /\ Len(fnSelectors) = 2 /\ fnSelectors[1] # fnSelectors[2]
    /\ sleeps = 2

\* C7: addLoadSelector appends a name only if it is a key of the selector
\* table at that moment (an unknown name is refused and the list stays).
C7_OnlyKnownSelectorsAdded ==
    [][Len(loadSelectors') > Len(loadSelectors) =>
          hasSelector(selectors, loadSelectors'[Len(loadSelectors')])]_vars

\* C10: whenever waitUntil is about to evaluate the predicate again, exactly
\* one adapter sleep, of waitInMs, has happened since the evaluation before.
C10_OneSleepBetweenEvals ==
    /\ pc = "while" => sleepsSinceEval = 1
    /\ fnKind # "none" => Elapsed = sleeps * waitInMs

\* C8: capture's promise is resolved only after the write callback reported
\* success, never in a capture whose decode or write reported an error, and
\* resolve / reject is called at most once per capture.
C8_ResolvedOnlyAfterWrite ==
    /\ settleCalls <= 1
    /\ Cardinality(Idx("resolve") \cup Idx("reject")) = settleCalls
    /\ (promise = "resolved" \/ Happened("resolve")) =>
          /\ ~DecodeFailed /\ ~WriteFailed
          /\ \A r \in Idx("resolve") :
                \E w \in Idx("writeImage.done") : w < r /\ trace[w].arg = FALSE
          /\ promise = "resolved" /\ Happened("resolve")
C8_Witness ==
    /\ pc = "settled" /\ promise = "resolved"
    /\ Len(blackOutList) = MaxBlackOuts /\ frame.width # 0 /\ frame.height # 0

\* C9: in a capture that decoded its image, the image is clipped exactly
\* when the frame read from the context has width and height both nonzero;
\* the clip comes after the fillRect of every black-out rectangle (in list
\* order) and before the write, with the frame that was read before
\* loadImage was called.
C9_ClipAfterBlackOut ==
    /\ Cardinality(Idx("clip")) <= 1
    /\ (\E d \in Idx("loadImage.done") : trace[d].arg = FALSE) =>
          /\ Happened("clip") <=> (FrameRead.width # 0 /\ FrameRead.height # 0)
          /\ Cardinality(Idx("fillRect")) = Len(blackOutList)
    /\ \A c \in Idx("clip") :
          /\ \A i \in Idx("fillRect") : i < c
          /\ \A k \in 1 .. Len(blackOutList) :
                \E i \in Idx("fillRect") :
                    /\ trace[i].arg = blackOutList[k]
                    /\ Cardinality({j \in Idx("fillRect") : j < i}) = k - 1
          /\ \E w \in Idx("writeImage") : c < w
          /\ \A w \in Idx("writeImage") : c < w
          /\ trace[c].arg = FrameRead
          /\ \E g \in Idx("getFrame"), l \in Idx("loadImage") : g < l /\ l < c
C9_Witness ==
    /\ Happened("clip") /\ Happened("writeImage")
    /\ Len(blackOutList) = MaxBlackOuts /\ blackOutList[1] # blackOutList[2]

\* C11: a waitForElements call whose names all had an element at the first
\* poll returns normally and never calls the adapter's sleep.
C11_NoSleepWhenPresentAtFirstPoll ==
    (fnKind = "elements" /\ result = "truthy") =>
        /\ sleeps = 0
        /\ pc # "thrown"

\* what the capture in progress handed to writeImage: the path and the image
Written == trace[CHOOSE i \in Idx("writeImage") : TRUE].arg
DecodeSucceeded == \E d \in Idx("loadImage.done") : trace[d].arg = FALSE
\* the orders a list can be put in
Reorderings(list) ==
    {[i \in 1 .. Len(list) |-> list[f[i]]] :
        f \in {g \in [1 .. Len(list) -> 1 .. Len(list)] :
                  \A i, j \in 1 .. Len(list) : g[i] = g[j] => i = j}}

\* C12: with a frame that is a real area, the image written is the crop of
\* the screenshot to the frame in which a pixel is opaque black if it lies
\* in some black-out rectangle (taken in screenshot coordinates) and is the
\* screenshot's pixel otherwise: a rectangle outside the frame changes
\* nothing, one inside it is black all over.
C12_BlackOutInScreenCoordinates ==
    (Happened("writeImage") /\ FrameRead.width # 0 /\ FrameRead.height # 0) =>
        LET W == Written.image
            F == FrameRead
            raw == Decode(buffer)
        IN /\ W.width = F.width /\ W.height = F.height
           /\ DOMAIN W.px = PixelsOf(F.width, F.height)
           /\ \A p \in DOMAIN W.px :
                 LET q == <<F.x + p[1], F.y + p[2]>> IN
                 W.px[p] =
                    IF \E k \in 1 .. Len(blackOutList) : InRect(q, blackOutList[k])
                    THEN Black
                    ELSE raw.px[q]
C12_Witness ==
    /\ Happened("writeImage") /\ Happened("clip")
    /\ blackOutList = <<Rect(0, 0, 1, 1), Rect(1, 1, 1, 1)>>
    /\ buffer = "png-plain"

\* C13: whatever order the black-out rectangles are put in, the same
\* screenshot and frame give the image that was written.
C13_OrderOfBlackOutsIrrelevant ==
    Happened("writeImage") =>
        \A other \in Reorderings(blackOutList) :
            composeImage(Decode(buffer), other, frame) = Written.image
C13_Witness ==
    /\ Happened("writeImage")
    /\ blackOutList = <<Rect(0, 1, 2, 1), Rect(1, 1, 1, 1)>>
    /\ frame = ZeroFrame /\ buffer = "png-plain"

\* C14: a capture with no black-out entry and the all-zero frame fills
\* nothing and clips nothing: the image written is the decoded screenshot.
C14_NoBlackOutNoClipIsRaw ==
    (Happened("writeImage") /\ capArgs.entries = <<>> /\ FrameRead = ZeroFrame) =>
        /\ ~Happened("fillRect") /\ ~Happened("clip")
        /\ Written.image = Decode(buffer)
C14_Witness ==
    /\ Happened("writeImage.done")
    /\ capArgs.entries = <<>> /\ FrameRead = ZeroFrame /\ buffer = "png-dark"

\* C15: a capture writes at most one file: exactly one, at the computed
\* path, once decoding succeeded, and none when decoding failed.
C15_OneWritePerCapture ==
    /\ Cardinality(Idx("writeImage")) <= 1
    /\ DecodeSucceeded =>
          /\ Cardinality(Idx("writeImage")) = 1
          /\ Written.path = path
          /\ path = join(capArgs.dir,
                         fileName(capArgs.title, capArgs.id, capArgs.prefix))
    /\ DecodeFailed => ~Happened("writeImage")
C15_Witness ==
    /\ pc = "uncaught" /\ Happened("writeImage") /\ WriteFailed

\* C17: the file is '<prefix>_<title>_<id>.png' when a prefix is
\* configured and '<title>_<id>.png' when none is, each part made safe and
\* the id '1' when omitted; title 'Login Test', no id, prefix 'suite1' give
\* 'suite1_Login_Test_1.png'.
C17_FileName ==
    trace # <<>> =>
        LET idPart == IF capArgs.id \in {Undefined, ""} THEN "1" ELSE capArgs.id
            base == fileNameSafe(capArgs.title) \o "_" \o fileNameSafe(idPart) \o ".png"
        IN /\ capArgs.prefix \in {Undefined, ""} => path = capArgs.dir \o "/" \o base
           /\ capArgs.prefix \notin {Undefined, ""} =>
                 path = capArgs.dir \o "/" \o fileNameSafe(capArgs.prefix) \o "_" \o base
           /\ (capArgs.title = "Login Test" /\ capArgs.id = Undefined
               /\ capArgs.prefix = "suite1") =>
                 path = "/shots/suite1_Login_Test_1.png"
           /\ Happened("writeImage") => Written.path = path
C17_Witness ==
    /\ Happened("writeImage")
    /\ Written.path = "/shots/suite1_Login_Test_1.png"

\* C18: a capture sleeps first (the caller's delay, 1000 when omitted), then
\* asks each black-out entry that is no rectangle for its frame, once each,
\* reads the context's frame and takes the screenshot, then decodes, then
\* fills the rectangles in list order; the screenshot is not taken before
\* the sleep and no frame is read after decoding has begun.
C18_CaptureOrder ==
    trace # <<>> =>
        /\ trace[1].ev = "sleep"
        /\ trace[1].arg = (IF capArgs.wait = 0 THEN 1000 ELSE capArgs.wait)
        /\ Cardinality(Idx("sleep")) = 1
        /\ Cardinality(Idx("entry.getFrame")) =
              Cardinality({k \in 1 .. Len(capArgs.entries) :
                              capArgs.entries[k].kind = "element"})
        /\ Cardinality(Idx("getFrame")) = 1
        /\ Cardinality(Idx("takeScreenshot")) = 1
        /\ Cardinality(Idx("loadImage")) = 1
        /\ \A e \in Idx("entry.getFrame"), g \in Idx("getFrame") : 1 < e /\ e < g
        /\ \A g \in Idx("getFrame"), t \in Idx("takeScreenshot"),
              l \in Idx("loadImage") : 1 < g /\ g < t /\ t < l
        /\ \A l \in Idx("loadImage"), i \in Idx("fillRect") \cup Idx("clip") : l < i
        /\ Happened("fillRect") =>
              \A k \in 1 .. Len(blackOutList) :
                 \E i \in Idx("fillRect") :
                    /\ trace[i].arg = blackOutList[k]
                    /\ Cardinality({j \in Idx("fillRect") : j < i}) = k - 1
C18_Witness ==
    /\ Cardinality(Idx("entry.getFrame")) = 2
    /\ Cardinality(Idx("fillRect")) = 2
    /\ capArgs.wait = 0

\* what a getter should have returned for a setting looked up through the
\* levels of `order`: the first value that is set (a value JavaScript takes
\* as true), and nothing usable when none is
FirstSet(setting, order, got) ==
    LET set == {i \in 1 .. Len(order) : overrides[order[i]][setting] \notin {Undefined, ""}}
    IN IF set = {}
       THEN got \in {Undefined, ""}
       ELSE got = overrides[order[CHOOSE i \in set : \A j \in set : i <= j]][setting]

\* C16 (as stated): the directory, the prefix and the adapter are each the
\* class's value if set, else the global one if set, else the environment's.
C16_AllThreeClassGlobalEnv ==
    resolved.asked =>
        /\ FirstSet("SCREENSHOT_PATH", <<"class", "global", "env">>, resolved.dir)
        /\ FirstSet("SCREENSHOT_PREFIX", <<"class", "global", "env">>, resolved.prefix)
        /\ FirstSet("DRIVER_ADAPTER", <<"class", "global", "env">>, resolved.adapter)
\* C16 (amended): the directory and the prefix are each the class's value
\* if set, else the global one if set, else the environment's; the adapter
\* is the class's value if set, else the global one, and the environment is
\* not looked at for it.
C16_AdapterFromClassOrGlobalOnly ==
    resolved.asked =>
        /\ FirstSet("SCREENSHOT_PATH", <<"class", "global", "env">>, resolved.dir)
        /\ FirstSet("SCREENSHOT_PREFIX", <<"class", "global", "env">>, resolved.prefix)
        /\ FirstSet("DRIVER_ADAPTER", <<"class", "global">>, resolved.adapter)
C16_Witness ==
    /\ resolved.asked
    /\ overrides.class = Level("", "class:SCREENSHOT_PREFIX", Undefined)
    /\ overrides.global = Level("global:SCREENSHOT_PATH", "global:SCREENSHOT_PREFIX", Undefined)
    /\ overrides.env = Level("env:SCREENSHOT_PATH", Undefined, "env:DRIVER_ADAPTER")
    /\ resolved.dir = "global:SCREENSHOT_PATH"
    /\ resolved.prefix = "class:SCREENSHOT_PREFIX"
    /\ resolved.adapter = Undefined

\* C19: when the transport's callback got an error, whatever the response
\* (absent included), the promise is rejected with that error: it is not
\* pending, not resolved, and no exception left the callback.
C19_ErrorAlwaysRejects ==
    (reqPc = "calledBack" /\ reqArgs.err # Undefined) =>
        /\ reqPromise = Settled("rejected", reqArgs.err)
        /\ reqUncaught = Undefined

\* C20 (as stated): with no error, the promise resolves with the response
\* data for every status code in 200..299 and rejects for every other.
C20_RejectsOutside2xx ==
    (reqPc = "calledBack" /\ reqArgs.err = Undefined /\ reqArgs.response.present) =>
        IF reqArgs.response.statusCode \in 200 .. 299
        THEN reqPromise = Settled("resolved", reqArgs.responseData)
        ELSE reqPromise.state = "rejected"
\* C20 (amended): with no error and a response, the promise rejects with an
\* error for every status code in 400..599 and resolves with the response
\* data for every other (1xx, 2xx, 3xx and 6xx alike).
C20_Rejects4xxAnd5xxOnly ==
    (reqPc = "calledBack" /\ reqArgs.err = Undefined /\ reqArgs.response.present) =>
        IF reqArgs.response.statusCode \in 400 .. 599
        THEN reqPromise = Settled("rejected", "StatusError")
        ELSE reqPromise = Settled("resolved", reqArgs.responseData)
C20_Witness ==
    /\ reqPc = "calledBack" /\ reqArgs.err = Undefined
    /\ reqArgs.response = Response(302)
    /\ reqPromise = Settled("resolved", "data-b")

====
